---- MODULE Spec2Model ----
(***************************************************************************)
(* Walk-forward portfolio backtester (src/ml/portfolio_backtester.py).     *)
(*                                                                         *)
(* Dates are trading-day indices 0..MaxDate of the canonical calendar.     *)
(* Floating-point quantities (weights, returns, costs) are exact rationals *)
(* <<num, den>> with den > 0, kept in lowest terms.                        *)
(***************************************************************************)
EXTENDS Integers, Sequences, FiniteSets, TLC

VARIABLES
    as_of_date,      \* SimulationClock._as_of_date (NoDate = None)
    all_dates,       \* SimulationClock._all_dates (NoCalendar = None)
    violation_log,   \* SimulationClock._violation_log
    lastOp,          \* the last clock operation called and its outcome
    guard_calls,     \* dates a component passed to guard_data_access before a read
    panel_reads,     \* dates whose feature rows or returns have been read
    forward,         \* cfg.forward: the forward-return horizon in trading days
    feature_df,      \* DataProvider.feature_df: the stacked rows [date, ticker]
    sg,              \* SignalModel.generate_signals: its locals and position
    pe,              \* PortfolioEngine.construct: its input and its result
    ex,              \* ExecutionSimulator.run: its inputs, locals and position
    bm,              \* compute_benchmarks: its inputs, locals and position
    ld,              \* DataProvider.load: the raw frames, the panel, the report
    cf,              \* BacktestConfig: the keyword arguments, the config, its hashes
    vr,              \* validate_returns: the matrix, the columns left, the result
    mt               \* compute_metrics: the input series and the result

clockVars == <<as_of_date, all_dates, violation_log>>
dataVars == <<forward, feature_df>>
traceVars == <<guard_calls, panel_reads>>

vars == <<as_of_date, all_dates, violation_log, lastOp, guard_calls, panel_reads,
          forward, feature_df, sg, pe, ex, bm, ld, cf, vr, mt>>

(***************************************************************************)
(* Bounds of the model                                                     *)
(***************************************************************************)
MaxDate == 3          \* dates of the clock exercised on its own
MaxViolations == 2    \* violations logged before the caller gives up
LastDate == 5         \* last date index of the canonical panel
MaxForward == 2       \* largest forward horizon tried
MaxWarmup == 1        \* latest first date with defined features
DaysPerMonth == 2     \* trading days in a calendar month (scaled)
MinTrainRows == 2     \* stands for the 200 training rows of line 642 (scaled)
MaxTrainRowsCap == 3  \* stands for MAX_TRAIN_ROWS = 20000 of line 585 (scaled)
MaxRebalances == 4    \* length of the rebalance_dates list
MinRebalanceDates == 2 \* stands for the 5 rebalance dates of line 1385 (scaled)

Dates == 0..MaxDate
PanelDates == 0..LastDate
Tickers == <<"A", "B">>
TickerSet == {Tickers[k] : k \in 1..Len(Tickers)}

(***************************************************************************)
(* Exact rational arithmetic                                               *)
(***************************************************************************)
RECURSIVE GCD(_, _)
GCD(a, b) == IF b = 0 THEN a ELSE GCD(b, a % b)

Abs(x) == IF x < 0 THEN 0 - x ELSE x

Norm(n, d) ==
    LET g == GCD(Abs(n), Abs(d))
        s == IF d < 0 THEN 0 - 1 ELSE 1
    IN  IF n = 0 THEN <<0, 1>> ELSE <<(s * n) \div g, (s * d) \div g>>

Q(n, d) == Norm(n, d)
RZero == <<0, 1>>
ROne == <<1, 1>>
RAdd(x, y) == Norm(x[1] * y[2] + y[1] * x[2], x[2] * y[2])
RSub(x, y) == Norm(x[1] * y[2] - y[1] * x[2], x[2] * y[2])
RMul(x, y) == Norm(x[1] * y[1], x[2] * y[2])
RDiv(x, y) == Norm(x[1] * y[2], x[2] * y[1])
RNeg(x) == <<0 - x[1], x[2]>>
RAbs(x) == <<Abs(x[1]), x[2]>>
RLe(x, y) == x[1] * y[2] <= y[1] * x[2]
RLt(x, y) == x[1] * y[2] < y[1] * x[2]
RMax(x, y) == IF RLt(x, y) THEN y ELSE x
RMin(x, y) == IF RLt(y, x) THEN y ELSE x

RECURSIVE RSum(_, _)
\* sum of f[k] over the finite set S
RSum(f, S) ==
    IF S = {} THEN RZero
    ELSE LET k == CHOOSE k \in S : TRUE IN RAdd(f[k], RSum(f, S \ {k}))

(***************************************************************************)
(* Sequences and sets of dates                                             *)
(***************************************************************************)
SetMax(S) == CHOOSE x \in S : \A y \in S : y <= x
SetMin(S) == CHOOSE x \in S : \A y \in S : x <= y

RECURSIVE SortedSeq(_)
\* Python sorted() of a collection of distinct dates
SortedSeq(S) ==
    IF S = {} THEN <<>> ELSE <<SetMin(S)>> \o SortedSeq(S \ {SetMin(S)})

Range(s) == {s[k] : k \in 1..Len(s)}

(***************************************************************************)
(* 2. SimulationClock                                                      *)
(***************************************************************************)
NoDate == 0 - 1
NoCalendar == <<NoDate>>

\* advance_to: the rewind test
AdvanceRaisesNever(now, ts) == FALSE
AdvanceRaisesOnEqual(now, ts) == now # NoDate /\ ts <= now
AdvanceRaises(now, ts) == now # NoDate /\ ts < now

\* guard_data_access: the lookahead test
GuardDataRaisesGE(now, ts) == now # NoDate /\ ts >= now
GuardDataRaisesUnset(now, ts) == now = NoDate \/ ts > now
GuardDataRaises(now, ts) == now # NoDate /\ ts > now

\* guard_training_data: train must end strictly before the signal date
GuardTrainingRaisesGT(te, sd) == te > sd
GuardTrainingRaises(te, sd) == te >= sd

AdvanceResult(now, ts) == IF AdvanceRaises(now, ts) THEN now ELSE ts

\* a guard appends its message to the violation log before it raises
LogAfterEveryCheck(log, raised, context) == Append(log, context)
LogAfter(log, raised, context) == IF raised THEN Append(log, context) ELSE log

ClockInit ==
    /\ as_of_date = NoDate
    /\ all_dates = NoCalendar
    /\ violation_log = <<>>

initialize(dates) ==
    /\ all_dates' = SortedSeq(dates)
    /\ as_of_date' = NoDate
    /\ UNCHANGED violation_log

advance_to(ts) ==
    /\ as_of_date' = AdvanceResult(as_of_date, ts)
    /\ UNCHANGED <<all_dates, violation_log>>

guard_data_access(ts) ==
    /\ violation_log' = LogAfter(violation_log, GuardDataRaises(as_of_date, ts), "data")
    /\ UNCHANGED <<as_of_date, all_dates>>

guard_training_data(te, sd) ==
    /\ violation_log' = LogAfter(violation_log, GuardTrainingRaises(te, sd), "train")
    /\ UNCHANGED <<as_of_date, all_dates>>

NoOp == [op |-> "none", date |-> NoDate, date2 |-> NoDate, raised |-> FALSE, before |-> NoDate]

\* direct calls on a clock object that no running component owns
Standalone == sg.pc = "idle" /\ ex.pc = "idle"

Initialize ==
    \E dates \in SUBSET Dates :
        /\ Standalone
        /\ initialize(dates)
        /\ lastOp' = [op |-> "initialize", date |-> NoDate, date2 |-> NoDate,
                      raised |-> FALSE, before |-> as_of_date]
        /\ UNCHANGED <<traceVars, dataVars, sg, pe, ex, bm, ld, cf, vr, mt>>

AdvanceTo ==
    \E ts \in Dates :
        /\ Standalone
        /\ advance_to(ts)
        /\ lastOp' = [op |-> "advance_to", date |-> ts, date2 |-> NoDate,
                      raised |-> AdvanceRaises(as_of_date, ts), before |-> as_of_date]
        /\ UNCHANGED <<traceVars, dataVars, sg, pe, ex, bm, ld, cf, vr, mt>>

GuardDataAccess ==
    \E ts \in Dates :
        /\ Standalone
        /\ GuardDataRaises(as_of_date, ts) => Len(violation_log) < MaxViolations
        /\ guard_data_access(ts)
        /\ lastOp' = [op |-> "guard_data_access", date |-> ts, date2 |-> NoDate,
                      raised |-> GuardDataRaises(as_of_date, ts), before |-> as_of_date]
        /\ UNCHANGED <<traceVars, dataVars, sg, pe, ex, bm, ld, cf, vr, mt>>

GuardTrainingData ==
    \E te \in Dates, sd \in Dates :
        /\ Standalone
        /\ GuardTrainingRaises(te, sd) => Len(violation_log) < MaxViolations
        /\ guard_training_data(te, sd)
        /\ lastOp' = [op |-> "guard_training_data", date |-> te, date2 |-> sd,
                      raised |-> GuardTrainingRaises(te, sd), before |-> as_of_date]
        /\ UNCHANGED <<traceVars, dataVars, sg, pe, ex, bm, ld, cf, vr, mt>>

(***************************************************************************)
(* 3. DataProvider: the stacked feature table                              *)
(***************************************************************************)
Row(d, t) == [date |-> d, ticker |-> t]

\* _build_features_single: fwd_return = log(close.shift(-forward) / close),
\* so the label of the row at date d is computed from the close at d + forward
LabelCloseDate(d, fwd) == d + fwd

\* the rolling windows are left-aligned: the features of the row at date d
\* are computed from closes dated <= d, the latest being d itself
FeatureCloseDate(d) == d

\* dropna keeps a row only where its features (after the warm-up) and its
\* label (forward days before the end of the panel) are defined
RECURSIVE RowsOfTicker(_, _, _)
RowsOfTicker(t, first, last) ==
    IF first > last THEN <<>>
    ELSE <<Row(first, t)>> \o RowsOfTicker(t, first + 1, last)

\* _build_matrices: pd.concat(all_frames), one instrument after the other
RECURSIVE Stacked(_, _, _)
Stacked(k, firsts, fwd) ==
    IF k > Len(Tickers) THEN <<>>
    ELSE RowsOfTicker(Tickers[k], firsts[Tickers[k]], LastDate - fwd)
         \o Stacked(k + 1, firsts, fwd)

(***************************************************************************)
(* 4. SignalModel.generate_signals                                         *)
(***************************************************************************)
TrainMaskInclusive(date, reb_date) == date <= reb_date
TrainMask(date, reb_date) == date < reb_date
TestMask(date, reb_date) == date = reb_date

RECURSIVE Masked(_, _, _)
\* rows[mask] for the train mask (train = TRUE) or the test mask
Masked(rows, reb_date, train) ==
    IF rows = <<>> THEN <<>>
    ELSE LET r == Head(rows)
             keep == IF train THEN TrainMask(r.date, reb_date)
                     ELSE TestMask(r.date, reb_date)
         IN  (IF keep THEN <<r>> ELSE <<>>) \o Masked(Tail(rows), reb_date, train)

RowDates(rows) == {rows[k].date : k \in 1..Len(rows)}

\* X_train[-MAX_TRAIN_ROWS:]
CapRows(rows) ==
    IF Len(rows) > MaxTrainRowsCap
    THEN SubSeq(rows, Len(rows) - MaxTrainRowsCap + 1, Len(rows))
    ELSE rows

\* (reb_ts.year, reb_ts.month)
MonthOf(d) == d \div DaysPerMonth

NoModel == [fit_date |-> NoDate, rows |-> <<>>]
NoMonth == NoDate

NeedRetrainAlways(cached_model, reb_month, last_train_month) == TRUE
NeedRetrain(cached_model, reb_month, last_train_month) ==
    cached_model = NoModel \/ reb_month # last_train_month

\* the fitted model, known by the rows it was fitted on
Fit(rows, reb_date) == [fit_date |-> reb_date, rows |-> rows]

\* one signal per test row, predicted by the (possibly cached) model
RECURSIVE SignalsFor(_, _, _)
SignalsFor(test, reb_date, model) ==
    IF test = <<>> THEN <<>>
    ELSE <<[date |-> reb_date, ticker |-> Head(test).ticker, model |-> model]>>
         \o SignalsFor(Tail(test), reb_date, model)

SgStart ==
    [pc |-> "loop", i_reb |-> 0, cached_model |-> NoModel,
     last_train_month |-> NoMonth, signals |-> <<>>,
     retrain_count |-> 0, rebalance_count |-> 0, total_train_size |-> 0,
     on_feature_dates |-> TRUE]

\* run_full_backtest, before generate_signals: the schedule must hold at
\* least the minimum number of dates, all of them dates of the feature table
ScheduleAccepted(n_dates, on_feature_dates) ==
    n_dates >= MinRebalanceDates /\ on_feature_dates

\* one pass of the loop over rebalance_dates; sg.on_feature_dates records
\* that every date of the list so far has rows in the feature table
SignalStep ==
    /\ sg.pc = "loop"
    /\ sg.i_reb < MaxRebalances
    /\ \E reb_date \in PanelDates :
        LET rewind == AdvanceRaises(as_of_date, reb_date)
            train == Masked(feature_df, reb_date, TRUE)
            test == Masked(feature_df, reb_date, FALSE)
            skip == Len(train) < MinTrainRows \/ Len(test) = 0
            max_train_date == SetMax(RowDates(train))
            lookahead == GuardTrainingRaises(max_train_date, reb_date)
            reb_month == MonthOf(reb_date)
            need_retrain == NeedRetrain(sg.cached_model, reb_month, sg.last_train_month)
            X_train == CapRows(train)
            model == IF need_retrain THEN Fit(X_train, reb_date) ELSE sg.cached_model
        IN  /\ as_of_date' = AdvanceResult(as_of_date, reb_date)
            /\ UNCHANGED <<all_dates, dataVars, guard_calls, pe, ex, bm, ld, cf, vr, mt>>
            /\ IF rewind THEN
                  /\ sg' = [sg EXCEPT !.pc = "raised"]
                  /\ lastOp' = [op |-> "advance_to", date |-> reb_date, date2 |-> NoDate,
                                raised |-> TRUE, before |-> as_of_date]
                  /\ UNCHANGED <<violation_log, panel_reads>>
               ELSE IF skip THEN
                  /\ sg' = [sg EXCEPT !.i_reb = @ + 1,
                                      !.on_feature_dates = @ /\ Len(test) > 0]
                  /\ lastOp' = [op |-> "advance_to", date |-> reb_date, date2 |-> NoDate,
                                raised |-> FALSE, before |-> as_of_date]
                  /\ UNCHANGED <<violation_log, panel_reads>>
               ELSE
                  /\ violation_log' = LogAfter(violation_log, lookahead, "train")
                  /\ lastOp' = [op |-> "guard_training_data", date |-> max_train_date,
                                date2 |-> reb_date, raised |-> lookahead,
                                before |-> AdvanceResult(as_of_date, reb_date)]
                  /\ IF lookahead THEN
                        /\ sg' = [sg EXCEPT !.pc = "raised"]
                        /\ UNCHANGED panel_reads
                     ELSE
                        /\ sg' = [sg EXCEPT
                              !.i_reb = @ + 1,
                              !.cached_model = model,
                              !.last_train_month =
                                  IF need_retrain THEN reb_month ELSE @,
                              !.retrain_count = IF need_retrain THEN @ + 1 ELSE @,
                              !.total_train_size =
                                  IF need_retrain THEN @ + Len(X_train) ELSE @,
                              !.signals = @ \o SignalsFor(test, reb_date, model),
                              !.rebalance_count = @ + 1]
                        /\ panel_reads' = panel_reads
                              \cup (IF need_retrain THEN RowDates(X_train) ELSE {})
                              \cup RowDates(test)

\* the list is exhausted: no signal at all is a ValueError
SignalFinish ==
    /\ sg.pc = "loop"
    /\ sg' = [sg EXCEPT !.pc = IF Len(sg.signals) = 0 THEN "error" ELSE "done"]
    /\ UNCHANGED <<clockVars, lastOp, traceVars, dataVars, pe, ex, bm, ld, cf, vr, mt>>

(***************************************************************************)
(* 5. PortfolioEngine                                                      *)
(***************************************************************************)
Min(a, b) == IF a < b THEN a ELSE b
Max(a, b) == IF a > b THEN a ELSE b

\* pandas DataFrame.head(n) / tail(n): a negative n drops |n| rows instead
PdHead(rows, n) ==
    IF n >= 0 THEN SubSeq(rows, 1, Min(n, Len(rows)))
    ELSE SubSeq(rows, 1, Max(0, Len(rows) + n))
PdTail(rows, n) ==
    IF n >= 0 THEN SubSeq(rows, Len(rows) - Min(n, Len(rows)) + 1, Len(rows))
    ELSE SubSeq(rows, Min(Len(rows), 0 - n) + 1, Len(rows))

EffTopK(cfg, avail) == Min(cfg.top_k, avail)
EffBottomK(cfg, avail) == Min(cfg.bottom_k, Max(0, avail - EffTopK(cfg, avail)))

\* ranked: the instruments sorted by predicted_return, highest first
LongTickers(ranked, cfg) == PdHead(ranked, EffTopK(cfg, Len(ranked)))

ShortTickers(ranked, cfg) ==
    LET eff_bottom_k == EffBottomK(cfg, Len(ranked))
        tail == IF eff_bottom_k > 0 THEN PdTail(ranked, eff_bottom_k) ELSE <<>>
        longs == Range(LongTickers(ranked, cfg))
    IN  SelectSeq(tail, LAMBDA t : t \notin longs)

EmptyWeights == [t \in {} |-> RZero]

EqualWeightAllLong(long_tickers, short_tickers) ==
    LET n == Len(long_tickers) + Len(short_tickers)
    IN  [t \in Range(long_tickers) \cup Range(short_tickers) |-> Q(1, n)]

equal_weight(long_tickers, short_tickers) ==
    LET n == Len(long_tickers) + Len(short_tickers)
    IN  [t \in Range(long_tickers) \cup Range(short_tickers) |->
            IF t \in Range(short_tickers) THEN Q(0 - 1, n) ELSE Q(1, n)]

\* vt: what the trailing-return lookup yields at current_date: the position
\* end_loc of the date in the return matrix, each instrument's trailing
\* standard deviation vols[t] > 0 (1e-6 when undefined), and vol_scalar =
\* target_vol_annual / port_vol > 0 (a square root, so taken as given)
vol_target_weight(long_tickers, short_tickers, cfg, vt) ==
    IF vt.end_loc < cfg.vol_window THEN equal_weight(long_tickers, short_tickers)
    ELSE
        LET selected == Range(long_tickers) \cup Range(short_tickers)
            inv_vol == [t \in selected |-> RDiv(ROne, vt.vols[t])]
            total_inv_vol == RSum(inv_vol, selected)
            weights == [t \in selected |->
                          IF t \in Range(short_tickers)
                          THEN RNeg(RDiv(inv_vol[t], total_inv_vol))
                          ELSE RDiv(inv_vol[t], total_inv_vol)]
        IN  [t \in selected |-> RMul(weights[t], vt.vol_scalar)]

GrossExposure(weights) == RSum([t \in DOMAIN weights |-> RAbs(weights[t])], DOMAIN weights)

CapWeightsNoClamp(weights, max_weight, max_leverage) ==
    LET gross == GrossExposure(weights)
    IN  IF RLt(max_leverage, gross) /\ RLt(RZero, gross)
        THEN [t \in DOMAIN weights |-> RMul(weights[t], RDiv(max_leverage, gross))]
        ELSE weights

cap_weights(weights, max_weight, max_leverage) ==
    LET clamped == [t \in DOMAIN weights |->
                       RMax(RNeg(max_weight), RMin(max_weight, weights[t]))]
        gross == GrossExposure(clamped)
    IN  IF DOMAIN weights = {} THEN weights
        ELSE IF RLt(max_leverage, gross) /\ RLt(RZero, gross)
        THEN [t \in DOMAIN weights |-> RMul(clamped[t], RDiv(max_leverage, gross))]
        ELSE clamped

\* the weights before the caps
Weighting(long_tickers, short_tickers, cfg, vt) ==
    IF cfg.weighting = "equal"
    THEN equal_weight(long_tickers, short_tickers)
    ELSE vol_target_weight(long_tickers, short_tickers, cfg, vt)

construct(ranked, cfg, vt) ==
    LET long_tickers == LongTickers(ranked, cfg)
        short_tickers == ShortTickers(ranked, cfg)
        weights == Weighting(long_tickers, short_tickers, cfg, vt)
    IN  IF Len(ranked) = 0 THEN EmptyWeights
        ELSE IF Len(long_tickers) + Len(short_tickers) = 0 THEN EmptyWeights
        ELSE cap_weights(weights, cfg.max_weight, cfg.max_leverage)

\* inputs tried
MaxK == 2
VolWindow == 1
WideTickers == {"A", "B", "C"}
TopKs == (0 - 1)..MaxK
BottomKs == 0..MaxK
MaxWeightChoices == {Q(1, 4), Q(1, 2), ROne}
MaxLeverageChoices == {Q(1, 2), ROne, Q(2, 1)}
VolChoices == {ROne, Q(2, 1)}
VolScalarChoices == {Q(1, 2), Q(3, 1)}

\* every ranking of every subset of the instruments T
RECURSIVE RankedLists(_)
RankedLists(T) ==
    {<<>>} \cup UNION {{<<t>> \o r : r \in RankedLists(T \ {t})} : t \in T}

PortfolioConfigs ==
    [top_k : TopKs, bottom_k : BottomKs, weighting : {"equal", "vol_target"},
     max_weight : MaxWeightChoices, max_leverage : MaxLeverageChoices,
     vol_window : {VolWindow}]

VolInputs(T) == [end_loc : 0..VolWindow, vols : [T -> VolChoices],
                 vol_scalar : VolScalarChoices]

PeIdle == [pc |-> "idle", ranked |-> <<>>, long_tickers |-> <<>>,
           short_tickers |-> <<>>, weighted |-> EmptyWeights,
           weights |-> EmptyWeights]

\* PortfolioEngine.construct called on one signal set
Construct ==
    /\ pe.pc = "input"
    /\ \E vt \in VolInputs(WideTickers) :
          LET long_tickers == LongTickers(pe.ranked, pe.cfg)
              short_tickers == ShortTickers(pe.ranked, pe.cfg)
          IN  pe' = [pe EXCEPT
                  !.pc = "done",
                  !.long_tickers = long_tickers,
                  !.short_tickers = short_tickers,
                  !.weighted = IF Len(long_tickers) + Len(short_tickers) = 0
                               THEN EmptyWeights
                               ELSE Weighting(long_tickers, short_tickers, pe.cfg, vt),
                  !.weights = construct(pe.ranked, pe.cfg, vt)]
    /\ UNCHANGED <<clockVars, lastOp, traceVars, dataVars, sg, ex, bm, ld, cf, vr, mt>>

(***************************************************************************)
(* 6. ExecutionSimulator.run                                               *)
(***************************************************************************)
LastOos == 2
OosDates == 0..LastOos

\* a missing return (NaN) contributes nothing
NaN == <<0, 0>>
IsNaN(r) == r[2] = 0
ReturnChoices == {NaN, Q(1, 4)}

\* weights.get(t, 0)
Get(weights, t) == IF t \in DOMAIN weights THEN weights[t] ELSE RZero

\* the L1 distance between the old and the new weights
Turnover(old_weights, new_weights) ==
    LET all_tickers == DOMAIN old_weights \cup DOMAIN new_weights
    IN  RSum([t \in all_tickers |->
                 RAbs(RSub(Get(new_weights, t), Get(old_weights, t)))], all_tickers)

CostRate(cfg) == Q(cfg.cost_bps + cfg.slippage_bps, 10000)

\* sum of w * r over the held instruments with a defined return
DayReturn(weights, rets) ==
    RSum([t \in DOMAIN weights |->
             IF IsNaN(rets[t]) THEN RZero ELSE RMul(weights[t], rets[t])],
         DOMAIN weights)

\* the weights the day's return is computed with: those current after the
\* pending ones were applied, never the ones built from today's signal
ActiveWeightsSameBar(current_weights, todays) ==
    IF todays # <<>> THEN todays[1] ELSE current_weights
ActiveWeights(current_weights, todays) == current_weights

CostTodayEveryDay(date, rebalance_trade_dates, turnover_by_date, cost_rate) ==
    RMul(RSum(turnover_by_date, DOMAIN turnover_by_date), cost_rate)
CostToday(date, rebalance_trade_dates, turnover_by_date, cost_rate) ==
    IF date \in rebalance_trade_dates
    THEN RMul(Get(turnover_by_date, date), cost_rate)
    ELSE RZero

NoDay == [date |-> NoDate, gross |-> RZero, net |-> RZero, holdings |-> 0,
          weights |-> EmptyWeights, rets |-> [t \in TickerSet |-> NaN]]

\* the latest guard_data_access of the run: the date it was asked about and
\* the 'now' of the clock it was evaluated against
NoGuard == [date |-> NoDate, now |-> NoDate]

ExIdle ==
    [pc |-> "idle", i |-> 0, data_now |-> NoDate, data_log |-> <<>>,
     own_clock |-> TRUE, lookahead_warning |-> FALSE,
     cost_deducted |-> RZero, total_cost |-> RZero, num_rebalances |-> 0,
     current_weights |-> EmptyWeights, pending_new_weights |-> <<>>,
     pending_rebalance |-> FALSE, turnover_by_date |-> EmptyWeights,
     rebalance_trade_dates |-> {},
     built |-> EmptyWeights, day |-> NoDay, guard |-> NoGuard]

ExecConfigs ==
    [top_k : {0 - 1, 1, 2}, bottom_k : {0, 1}, weighting : {"equal", "vol_target"},
     max_weight : {Q(1, 2)}, max_leverage : {ROne}, vol_window : {VolWindow},
     cost_bps : {10}, slippage_bps : {5}]

\* line 866: the pending weights are applied when the flag is set and the
\* weights are not None; an empty map is not None
ApplyPendingUnlessEmpty(pending_rebalance, pending_new_weights) ==
    /\ pending_rebalance
    /\ pending_new_weights # <<>>
    /\ DOMAIN pending_new_weights[1] # {}
ApplyPending(pending_rebalance, pending_new_weights) ==
    pending_rebalance /\ pending_new_weights # <<>>

\* total_cost of the result
TotalCost(turnover_by_date, cost_rate) ==
    RSum([d \in DOMAIN turnover_by_date |-> RMul(turnover_by_date[d], cost_rate)],
         DOMAIN turnover_by_date)

\* one pass of the loop over the out-of-sample dates. ex.cost_deducted adds
\* up gross - net over the days recorded so far. ex.data_now and
\* ex.data_log are 'now' and the violation log of the clock the DataProvider
\* holds; ex.own_clock tells that the simulator runs on a clock of its own,
\* otherwise both share one clock object
ExecStep ==
    /\ ex.pc = "loop"
    /\ ex.i <= LastOos
    /\ \E sig \in RankedLists(TickerSet), rets \in [TickerSet -> ReturnChoices],
          vt \in VolInputs(TickerSet) :
        LET date == ex.i
            rewind == AdvanceRaises(as_of_date, date)
            apply == ApplyPending(ex.pending_rebalance, ex.pending_new_weights)
            old_weights == ex.current_weights
            current_weights == IF apply THEN ex.pending_new_weights[1] ELSE old_weights
            turnover == Turnover(old_weights, current_weights)
            turnover_by_date ==
                IF apply
                THEN [d \in DOMAIN ex.turnover_by_date \cup {date} |->
                         IF d = date THEN turnover ELSE ex.turnover_by_date[d]]
                ELSE ex.turnover_by_date
            rebalance_trade_dates ==
                IF apply THEN ex.rebalance_trade_dates \cup {date}
                ELSE ex.rebalance_trade_dates
            is_signal_date == sig # <<>>
            vol_lookup == is_signal_date /\ ex.cfg.weighting = "vol_target"
                          /\ Len(LongTickers(sig, ex.cfg)) + Len(ShortTickers(sig, ex.cfg)) > 0
            data_clock_now == IF ex.own_clock THEN ex.data_now
                              ELSE AdvanceResult(as_of_date, date)
            lookahead == vol_lookup /\ GuardDataRaises(data_clock_now, date)
            guard_log(log) == IF vol_lookup /\ ~rewind
                              THEN LogAfter(log, lookahead, "data") ELSE log
            new_weights == construct(sig, ex.cfg, [vt EXCEPT !.end_loc = date])
            todays == IF is_signal_date THEN <<new_weights>> ELSE <<>>
            active == ActiveWeights(current_weights, todays)
            flat == ex.i = 0 \/ DOMAIN active = {}
            day_return == IF flat THEN RZero ELSE DayReturn(active, rets)
            cost_today == IF flat THEN RZero
                          ELSE CostToday(date, rebalance_trade_dates, turnover_by_date,
                                         CostRate(ex.cfg))
        IN  /\ is_signal_date => date <= ex.data_now
            /\ vt.end_loc = 0
            /\ ~vol_lookup => /\ vt.vol_scalar = CHOOSE x \in VolScalarChoices : TRUE
                              /\ vt.vols = [t \in TickerSet |-> ROne]
            /\ \A t \in TickerSet : (flat \/ t \notin DOMAIN active) => IsNaN(rets[t])
            /\ as_of_date' = AdvanceResult(as_of_date, date)
            /\ lastOp' = [op |-> "advance_to", date |-> date, date2 |-> NoDate,
                          raised |-> rewind, before |-> as_of_date]
            /\ UNCHANGED <<all_dates, dataVars, sg, pe, bm, ld, cf, vr, mt>>
            /\ IF rewind \/ lookahead THEN
                  /\ ex' = [ex EXCEPT !.pc = "raised",
                                      !.guard = IF rewind THEN @
                                                ELSE [date |-> date, now |-> data_clock_now],
                                      !.data_log = guard_log(@)]
                  /\ violation_log' = IF ex.own_clock THEN violation_log
                                      ELSE guard_log(violation_log)
                  /\ guard_calls' = IF rewind THEN guard_calls ELSE guard_calls \cup {date}
                  /\ UNCHANGED panel_reads
               ELSE
                  /\ ex' = [ex EXCEPT
                        !.i = @ + 1,
                        !.current_weights = current_weights,
                        !.pending_new_weights = IF is_signal_date THEN todays
                                                ELSE IF apply THEN <<>> ELSE @,
                        !.pending_rebalance = IF is_signal_date THEN TRUE
                                              ELSE IF apply THEN FALSE ELSE @,
                        !.turnover_by_date = turnover_by_date,
                        !.rebalance_trade_dates = rebalance_trade_dates,
                        !.built =
                            IF is_signal_date
                            THEN [d \in DOMAIN @ \cup {date} |->
                                     IF d = date THEN new_weights ELSE @[d]]
                            ELSE @,
                        !.guard = IF vol_lookup
                                  THEN [date |-> date, now |-> data_clock_now]
                                  ELSE @,
                        !.data_log = guard_log(@),
                        !.cost_deducted = RAdd(@, cost_today),
                        !.day = [date |-> date, gross |-> day_return,
                                 net |-> RSub(day_return, cost_today),
                                 holdings |-> Cardinality(DOMAIN current_weights),
                                 weights |-> active, rets |-> rets]]
                  /\ violation_log' = IF ex.own_clock THEN violation_log
                                      ELSE guard_log(violation_log)
                  /\ guard_calls' = IF vol_lookup THEN guard_calls \cup {date}
                                    ELSE guard_calls
                  /\ panel_reads' = panel_reads
                        \cup (IF vol_lookup THEN 0..date ELSE {})
                        \cup (IF flat THEN {} ELSE {date})

\* the dates are exhausted: the turnover check, then the result
ExecFinish ==
    /\ ex.pc = "loop"
    /\ ex.i > LastOos
    /\ ex' = [ex EXCEPT
                 !.pc = IF \E d \in DOMAIN ex.turnover_by_date :
                               d \notin ex.rebalance_trade_dates
                               /\ RLt(RZero, ex.turnover_by_date[d])
                        THEN "raised" ELSE "done",
                 !.num_rebalances = Cardinality(ex.rebalance_trade_dates),
                 !.total_cost = TotalCost(ex.turnover_by_date, CostRate(ex.cfg))]
    /\ UNCHANGED <<clockVars, lastOp, traceVars, dataVars, sg, pe, bm, ld, cf, vr, mt>>

\* the configurations of a whole run: long only, with the volatility lookup
\* that calls the guard of the DataProvider
RunConfigs ==
    {cfg \in ExecConfigs :
        cfg.bottom_k = 0 /\ cfg.weighting = "vol_target" /\ cfg.top_k < 2}

\* run_full_backtest step 5, after generate_signals returned: a new clock
\* is initialized with the out-of-sample dates and handed to the simulator
\* and the portfolio engine; the DataProvider keeps the clock of the signal
\* phase, standing at the last rebalance date, an out-of-sample date. What
\* generate_signals kept in its locals is gone; ExecStep draws the signals
\* of each date
StartExecution ==
    /\ sg.pc = "done"
    /\ ex.pc = "idle"
    /\ \E cfg \in RunConfigs, last_rebalance \in OosDates :
          ex' = [ExIdle EXCEPT !.pc = "loop", !.data_now = last_rebalance,
                               !.data_log = violation_log] @@ [cfg |-> cfg]
    /\ sg' = [SgStart EXCEPT !.pc = "returned"]
    /\ as_of_date' = NoDate
    /\ all_dates' = SortedSeq(OosDates)
    /\ violation_log' = <<>>
    /\ lastOp' = [op |-> "initialize", date |-> NoDate, date2 |-> NoDate,
                  raised |-> FALSE, before |-> NoDate]
    /\ guard_calls' = {}
    /\ panel_reads' = {}
    /\ UNCHANGED <<dataVars, pe, bm, ld, cf, vr, mt>>

\* run_full_backtest steps 6 to 11: the warning of step 9 reads the
\* violations of the first clock, the one the DataProvider holds
ReturnResult ==
    /\ sg.pc = "returned"
    /\ ex.pc = "done"
    /\ ex' = [ex EXCEPT !.pc = "returned",
                        !.lookahead_warning = Len(ex.data_log) > 0]
    /\ UNCHANGED <<clockVars, lastOp, traceVars, dataVars, sg, pe, bm, ld, cf, vr, mt>>

(***************************************************************************)
(* 7. compute_benchmarks                                                   *)
(***************************************************************************)
LastBench == 2
BenchDates == 0..LastBench
BenchTickers == {"A", "SPY"}

\* the k-element subsets rng.choice(pool, size = k, replace = False) can draw
Picks(pool, k) == {S \in SUBSET pool : Cardinality(S) = k}

NanToZero(r) == IF IsNaN(r) THEN RZero ELSE r

EqualBenchWeights(ew_tickers) ==
    [t \in ew_tickers |-> Q(1, Cardinality(ew_tickers))]

\* the weights after the day's returns, renormalised to gross exposure 1
Drift(weights, rets) ==
    LET grown == [t \in DOMAIN weights |->
                     RMul(weights[t], RAdd(ROne, NanToZero(rets[t])))]
        gross_val == RSum([t \in DOMAIN grown |-> RAbs(grown[t])], DOMAIN grown)
    IN  IF RLt(RZero, gross_val)
        THEN [t \in DOMAIN grown |-> RDiv(grown[t], gross_val)]
        ELSE grown

RandK(top_k, rand_pool) == Min(top_k, Max(1, Cardinality(rand_pool) - 1))

\* the turnover the random baseline computes between two sets of picks
PickTurnover(old_picks, new_picks) ==
    IF old_picks = {} THEN RZero
    ELSE LET w_per == IF new_picks = {} THEN RZero ELSE Q(1, Cardinality(new_picks))
             all_t == old_picks \cup new_picks
         IN  RSum([t \in all_t |->
                      RAbs(RSub(IF t \in new_picks THEN w_per ELSE RZero,
                                IF t \in old_picks THEN w_per ELSE RZero))], all_t)

NoBenchDay == [series |-> "none", date |-> NoDate, ret |-> RZero, gross |-> RZero,
               turnover |-> RZero, changed |-> FALSE]

BmIdle ==
    [pc |-> "idle", i |-> 0, return_matrix |-> <<>>, reb_schedule |-> {},
     top_k |-> 1, cost_bps |-> 10, slippage_bps |-> 5,
     weights |-> EmptyWeights, current_picks |-> {}, day |-> NoBenchDay]

\* the position after the pass over date i of one of the three loops
BenchAfter(pc, next_pc) ==
    IF bm.i < LastBench THEN [pc |-> pc, i |-> bm.i + 1] ELSE [pc |-> next_pc, i |-> 0]

\* one pass of the equal-weight loop
EqualWeightStep ==
    /\ bm.pc = "equal_weight_bh"
    /\ LET date == bm.i
           rets == bm.return_matrix[date]
           reset == date \in bm.reb_schedule
           weights == IF reset THEN EqualBenchWeights(BenchTickers) ELSE bm.weights
           day_ret == DayReturn(weights, rets)
           after == BenchAfter("equal_weight_bh", "spy_bh")
       IN  IF bm.i = 0
           THEN bm' = [bm EXCEPT !.pc = after.pc, !.i = after.i,
                          !.day = [NoBenchDay EXCEPT !.series = "equal_weight_bh",
                                                     !.date = date]]
           ELSE bm' = [bm EXCEPT !.pc = after.pc, !.i = after.i,
                          !.weights = Drift(weights, rets),
                          !.day = [series |-> "equal_weight_bh", date |-> date,
                                   ret |-> day_ret, gross |-> day_ret,
                                   turnover |-> Turnover(bm.weights, weights),
                                   changed |-> reset /\ weights # bm.weights]]
    /\ UNCHANGED <<clockVars, lastOp, traceVars, dataVars, sg, pe, ex, ld, cf, vr, mt>>

\* one pass of the reference-instrument loop
SpyStep ==
    /\ bm.pc = "spy_bh"
    /\ LET date == bm.i
           r == NanToZero(bm.return_matrix[date]["SPY"])
           rand_pool == BenchTickers
           has_random == Cardinality(rand_pool) >= 2 /\ RandK(bm.top_k, rand_pool) >= 1
           after == BenchAfter("spy_bh", IF has_random THEN "random_baseline" ELSE "done")
       IN  bm' = [bm EXCEPT !.pc = after.pc, !.i = after.i,
                     !.day = [series |-> "spy_bh", date |-> date, ret |-> r,
                              gross |-> r, turnover |-> RZero, changed |-> FALSE]]
    /\ UNCHANGED <<clockVars, lastOp, traceVars, dataVars, sg, pe, ex, ld, cf, vr, mt>>

\* one pass of the random-baseline loop
RandomStep ==
    /\ bm.pc = "random_baseline"
    /\ \E drawn \in Picks(BenchTickers, RandK(bm.top_k, BenchTickers)) :
        LET date == bm.i
            rets == bm.return_matrix[date]
            rebalance == date \in bm.reb_schedule \/ bm.i = 0
            old_picks == bm.current_picks
            current_picks == IF rebalance THEN drawn ELSE old_picks
            turnover == IF rebalance THEN PickTurnover(old_picks, current_picks)
                        ELSE RZero
            flat == bm.i = 0 \/ current_picks = {}
            w_per == Q(1, Cardinality(current_picks))
            day_ret == DayReturn([t \in current_picks |-> w_per], rets)
            cost_today == IF RLt(RZero, turnover)
                          THEN RMul(turnover, CostRate(bm)) ELSE RZero
            after == BenchAfter("random_baseline", "done")
        IN  /\ ~rebalance => drawn = CHOOSE S \in Picks(BenchTickers,
                                         RandK(bm.top_k, BenchTickers)) : TRUE
            /\ bm' = [bm EXCEPT !.pc = after.pc, !.i = after.i,
                         !.current_picks = current_picks,
                         !.day = [series |-> "random_baseline", date |-> date,
                                  ret |-> IF flat THEN RZero
                                          ELSE RSub(day_ret, cost_today),
                                  gross |-> IF flat THEN RZero ELSE day_ret,
                                  turnover |-> turnover,
                                  changed |-> old_picks # {}
                                              /\ current_picks # old_picks]]
    /\ UNCHANGED <<clockVars, lastOp, traceVars, dataVars, sg, pe, ex, ld, cf, vr, mt>>

(***************************************************************************)
(* 8. DataProvider.load and the absurd-return cleanup                      *)
(***************************************************************************)
LastLoadDate == 4
MinRows == 2
MinCommonDates == 2
MinRangeDates == 3
ExtendDays == 1
LoadDates == 0..LastLoadDate
LoadTickers == <<"A", "B", "C">>

\* what load_eod_by_symbol and the per-instrument pass make of one ticker:
\* no entry, an empty frame, no close/date column, an exception, or closes
\* on the business days first..last (short gaps forward-filled)
RawFailures == {"absent", "empty", "no_columns", "exception"}
RawFrames ==
    [kind : RawFailures, first : {NoDate}, last : {NoDate}]
        \cup {r \in [kind : {"data"}, first : LoadDates, last : LoadDates] :
                 r.first <= r.last}

FailureReason(kind) ==
    CASE kind = "absent" -> "no_data"
      [] kind = "empty" -> "no_data"
      [] kind = "no_columns" -> "missing_required_columns"
      [] OTHER -> "exception"

\* missing_report[t] = reason for every t dropped
ReportDroppedNothing(missing_report, dropped, reason) == missing_report
ReportDropped(missing_report, dropped, reason) ==
    [t \in DOMAIN missing_report \cup dropped |->
        IF t \in dropped THEN reason ELSE missing_report[t]]

\* the dict without the deleted keys
Without(price_dict, dropped) == [t \in DOMAIN price_dict \ dropped |-> price_dict[t]]

\* k-th element (from 0) of sorted(values), duplicates kept
RECURSIVE KthSmallest(_, _, _)
KthSmallest(f, S, k) ==
    LET t == CHOOSE t \in S : \A u \in S : f[t] <= f[u]
    IN  IF k = 0 THEN f[t] ELSE KthSmallest(f, S \ {t}, k - 1)

\* the number of instruments with a close on date d
CountOn(date_sets, d) == Cardinality({t \in DOMAIN date_sets : d \in date_sets[t]})

CommonThreshold(n_tickers) == Max(1, n_tickers \div 2)

\* common_dates[-days:]
LastDays(dates, days) ==
    {d \in dates : Cardinality({e \in dates : e >= d}) <= days}

NoFilter == NoDate

\* the per-instrument pass: a frame in price_dict or a reason in the report
FirstPass(ticker_list, raw) ==
    LET requested == Range(ticker_list)
        failed == {t \in requested : raw[t].kind # "data"}
    IN  [price_dict |-> [t \in requested \ failed |-> raw[t].first..raw[t].last],
         missing_report |-> [t \in failed |-> FailureReason(raw[t].kind)]]

\* step 1: drop the tickers with fewer than MIN_ROWS valid closes
DropShort(panel) ==
    LET short == {t \in DOMAIN panel.price_dict :
                     Cardinality(panel.price_dict[t]) < MinRows}
    IN  [price_dict |-> Without(panel.price_dict, short),
         missing_report |-> ReportDropped(panel.missing_report, short, "too_few_rows")]

\* step 2: median start to median end, the end extended to the latest
\* one when that is close
RangeOf(price_dict) ==
    LET starts == [t \in DOMAIN price_dict |-> SetMin(price_dict[t])]
        ends == [t \in DOMAIN price_dict |-> SetMax(price_dict[t])]
        mid == Cardinality(DOMAIN price_dict) \div 2
        median_end == KthSmallest(ends, DOMAIN ends, mid)
        max_end == SetMax({ends[t] : t \in DOMAIN ends})
    IN  [range_start |-> KthSmallest(starts, DOMAIN starts, mid),
         range_end |-> IF max_end - median_end <= ExtendDays THEN max_end
                       ELSE median_end]

\* step 3: drop the tickers with less than 80% of the calendar
DropSparse(panel, calendar) ==
    LET sparse == {t \in DOMAIN panel.price_dict :
                      5 * Cardinality(panel.price_dict[t] \cap calendar)
                          < 4 * Cardinality(calendar)}
    IN  [price_dict |-> Without(panel.price_dict, sparse),
         missing_report |->
             ReportDropped(panel.missing_report, sparse, "insufficient_coverage")]

\* step 4: the calendar dates on which enough surviving tickers have data
CommonDates(price_dict, calendar) ==
    {d \in calendar :
        CountOn(price_dict, d) >= CommonThreshold(Cardinality(DOMAIN price_dict))}

\* the date range of the config: start_date, end_date, the last `days`
FilterDates(common, start_date, end_date, days) ==
    LET from_start == IF start_date # NoFilter THEN {d \in common : d >= start_date}
                      ELSE common
        to_end == IF end_date # NoFilter THEN {d \in from_start : d <= end_date}
                  ELSE from_start
    IN  IF days # 0 /\ start_date = NoFilter /\ Cardinality(to_end) > days
        THEN LastDays(to_end, days) ELSE to_end

LoadRaised(why) ==
    [pc |-> "raised", error |-> why, price_dict |-> <<>>,
     common_dates |-> {}, missing_report |-> <<>>]

\* steps 2 to 4 and the date filter, on the panel step 1 left
AlignCalendar(panel, start_date, end_date, days) ==
    LET range == RangeOf(panel.price_dict)
        calendar == range.range_start..range.range_end
        kept == DropSparse(panel, calendar)
        common == CommonDates(kept.price_dict, calendar)
        common_dates == FilterDates(common, start_date, end_date, days)
    IN  IF range.range_start >= range.range_end
        THEN LoadRaised("No overlapping date range")
        ELSE IF DOMAIN kept.price_dict = {} THEN LoadRaised("All tickers dropped")
        ELSE IF Cardinality(common) < MinCommonDates THEN LoadRaised("Too few dates")
        ELSE IF Cardinality(common_dates) < MinRangeDates
             THEN LoadRaised("Too few dates in range")
        ELSE [pc |-> "loaded", error |-> "",
              price_dict |-> [t \in DOMAIN kept.price_dict |->
                                 kept.price_dict[t] \cap common_dates],
              common_dates |-> common_dates,
              missing_report |-> kept.missing_report]

\* DataProvider.load as a function of the raw frames and the config: the
\* panel it leaves behind, or the ValueError it raises
LoadResult(ticker_list, raw, start_date, end_date, days) ==
    LET found == FirstPass(ticker_list, raw)
        panel == DropShort(found)
    IN  IF ticker_list = <<>> THEN LoadRaised("No tickers provided")
        ELSE IF DOMAIN found.price_dict = {} THEN LoadRaised("No ticker data loaded")
        ELSE IF DOMAIN panel.price_dict = {}
             THEN LoadRaised("No tickers have enough days")
        ELSE AlignCalendar(panel, start_date, end_date, days)

LdIdle ==
    [pc |-> "idle", ticker_list |-> <<>>, raw |-> <<>>, error |-> "",
     price_dict |-> <<>>, common_dates |-> {}, missing_report |-> <<>>,
     date_filter |-> FALSE]

\* data.load(cfg); ld.date_filter records that cfg sets start_date,
\* end_date or days
Load ==
    /\ ld.pc = "input"
    /\ \E start_date \in {NoFilter, 1}, end_date \in {NoFilter, LastLoadDate - 1},
          days \in {0, MinRangeDates} :
        LET result == LoadResult(ld.ticker_list, ld.raw, start_date, end_date, days)
        IN  ld' = [ld EXCEPT !.pc = result.pc, !.error = result.error,
                             !.price_dict = result.price_dict,
                             !.common_dates = result.common_dates,
                             !.missing_report = result.missing_report,
                             !.date_filter = start_date # NoFilter
                                             \/ end_date # NoFilter \/ days # 0]
    /\ UNCHANGED <<clockVars, lastOp, traceVars, dataVars, sg, pe, ex, bm, cf, vr, mt>>

\* run_full_backtest step 1b: the tickers validate_returns flagged are
\* deleted from the panel and reported
AbsurdCleanup ==
    /\ ld.pc = "loaded"
    /\ \E flagged \in SUBSET DOMAIN ld.price_dict :
        LET dropped_absurd == {t \in flagged : t \in DOMAIN ld.price_dict}
            price_dict == Without(ld.price_dict, dropped_absurd)
        IN  ld' = [ld EXCEPT
                      !.pc = IF DOMAIN price_dict = {} THEN "raised" ELSE "cleaned",
                      !.error = IF DOMAIN price_dict = {} THEN "All tickers dropped"
                                ELSE @,
                      !.price_dict = price_dict,
                      !.missing_report =
                          ReportDropped(@, dropped_absurd, "absurd_returns")]
    /\ UNCHANGED <<clockVars, lastOp, traceVars, dataVars, sg, pe, ex, bm, cf, vr, mt>>

(***************************************************************************)
(* 9. BacktestConfig                                                       *)
(***************************************************************************)
\* Python values: a type tag and the value
PyInt(n) == <<"int", n>>
PyStr(v) == <<"str", v>>
PyBool(b) == <<"bool", b>>
PyNone == <<"NoneType", "">>

\* the slots of the config that are modelled, and their defaults
ConfigSlots == {"top_k", "data_dir", "debug"}
SlotDefault(slot) ==
    CASE slot = "top_k" -> PyInt(10)
      [] slot = "data_dir" -> PyNone
      [] slot = "debug" -> PyBool(FALSE)

SlotValues(slot) ==
    CASE slot = "top_k" -> {PyInt(10), PyInt(30)}
      [] slot = "data_dir" -> {PyStr("/data"), PyStr("/tmp")}
      [] slot = "debug" -> {PyBool(FALSE), PyBool(TRUE)}

\* keyword arguments in the order they were supplied, no key twice
RECURSIVE KwArgs(_)
KwArgs(slots) ==
    {<<>>} \cup UNION {{<<<<k, v>>>> \o rest : v \in SlotValues(k),
                                             rest \in KwArgs(slots \ {k})} :
                       k \in slots}

\* kw.get(slot, default)
KwGet(kw, slot) ==
    IF \E i \in 1..Len(kw) : kw[i][1] = slot
    THEN kw[CHOOSE i \in 1..Len(kw) : kw[i][1] = slot][2]
    ELSE SlotDefault(slot)

\* BacktestConfig(**kw)
BacktestConfig(kw) == [slot \in ConfigSlots |-> KwGet(kw, slot)]

to_dict(cfg) == [slot \in ConfigSlots |-> cfg[slot]]

\* the keys config_hash pops before hashing
PoppedDataDirOnly == {"data_dir"}
Popped == {"data_dir", "debug"}

\* the JSON text of one value
JsonOf(v) ==
    CASE v[1] = "int" -> <<"number", v[2]>>
      [] v[1] = "str" -> <<"string", v[2]>>
      [] v[1] = "bool" -> <<IF v[2] THEN "true" ELSE "false", "">>
      [] OTHER -> <<"null", "">>

\* the modelled slots in the order sort_keys = True writes them
SortedSlots == <<"data_dir", "debug", "top_k">>

\* json.dumps(d, sort_keys = True): the members in key order
JsonDumps(d) ==
    SelectSeq([i \in 1..Len(SortedSlots) |->
                  IF SortedSlots[i] \in DOMAIN d
                  THEN <<SortedSlots[i], JsonOf(d[SortedSlots[i]])>>
                  ELSE <<>>],
              LAMBDA member : member # <<>>)

\* the digest, taken as collision-free on the canonical texts
Sha256Prefix(canonical) == <<"sha256", canonical>>

config_hash(cfg) ==
    LET d == to_dict(cfg)
        kept == [slot \in DOMAIN d \ Popped |-> d[slot]]
    IN  Sha256Prefix(JsonDumps(kept))

InvestableCounts == {25, 40}

CfIdle ==
    [pc |-> "idle", kw |-> <<>>, other_kw |-> <<>>,
     cfg |-> BacktestConfig(<<>>), other |-> BacktestConfig(<<>>),
     cfg_start |-> BacktestConfig(<<>>),
     hash_start |-> <<>>, hash_other |-> <<>>, hash_end |-> <<>>]

\* run_full_backtest: the config is built and its hash logged (and a
\* second config is built and hashed for comparison)
ConfigHash ==
    /\ cf.pc = "input"
    /\ cf' = [cf EXCEPT !.pc = "hashed",
                        !.cfg = BacktestConfig(cf.kw),
                        !.cfg_start = BacktestConfig(cf.kw),
                        !.other = BacktestConfig(cf.other_kw),
                        !.hash_start = config_hash(BacktestConfig(cf.kw)),
                        !.hash_other = config_hash(BacktestConfig(cf.other_kw))]
    /\ UNCHANGED <<clockVars, lastOp, traceVars, dataVars, sg, pe, ex, bm, ld, vr, mt>>

\* step 3b: top_k is capped below the number of investable tickers
ValidateTopK ==
    /\ cf.pc = "hashed"
    /\ \E n_investable \in InvestableCounts :
        LET top_k == cf.cfg["top_k"][2]
            new_top_k == Max(1, n_investable - 1)
        IN  cf' = [cf EXCEPT !.pc = "validated",
                             !.cfg = IF n_investable <= top_k
                                     THEN [@ EXCEPT !["top_k"] = PyInt(new_top_k)]
                                     ELSE @]
    /\ UNCHANGED <<clockVars, lastOp, traceVars, dataVars, sg, pe, ex, bm, ld, vr, mt>>

\* step 11: the result carries the config and its hash
AssembleOutput ==
    /\ cf.pc = "validated"
    /\ cf' = [cf EXCEPT !.pc = "done", !.hash_end = config_hash(cf.cfg)]
    /\ UNCHANGED <<clockVars, lastOp, traceVars, dataVars, sg, pe, ex, bm, ld, vr, mt>>

(***************************************************************************)
(* 10. validate_returns                                                    *)
(***************************************************************************)
LastValDate == 3
ValDates == 0..LastValDate
ValTickers == <<"A", "B">>
AbsurdMaxEvents == 3
AbsurdDailyReturn == Q(1, 2)
ValReturnChoices == {NaN, Q(1, 2), Q(3, 5), Q(0 - 3, 5)}

\* col = return_matrix[ticker].dropna(); col[col.abs() > ABSURD_DAILY_RETURN]
AbsurdMask(r) == ~IsNaN(r) /\ RLt(AbsurdDailyReturn, RAbs(r))

\* the events of one column, in index order
Events(col) == SortedSeq({d \in DOMAIN col : AbsurdMask(col[d])})

TooManyEventsInclusive(n_events) == n_events >= AbsurdMaxEvents
TooManyEvents(n_events) == n_events > AbsurdMaxEvents

VrIdle ==
    [pc |-> "idle", return_matrix |-> <<>>, columns |-> <<>>,
     flagged |-> <<>>, warned |-> <<>>]

\* one pass of the loop over the columns of the return matrix
ValidateTicker ==
    /\ vr.pc = "loop"
    /\ vr.columns # <<>>
    /\ LET ticker == Head(vr.columns)
           events == Events(vr.return_matrix[ticker])
           n_events == Len(events)
           flag == n_events > 0 /\ TooManyEvents(n_events)
           warn == n_events > 0 /\ ~TooManyEvents(n_events)
       IN  vr' = [vr EXCEPT
                     !.columns = Tail(@),
                     !.flagged = IF flag
                                 THEN [t \in DOMAIN @ \cup {ticker} |->
                                          IF t = ticker THEN events ELSE @[t]]
                                 ELSE @,
                     !.warned = IF warn
                                THEN [t \in DOMAIN @ \cup {ticker} |->
                                         IF t = ticker THEN events ELSE @[t]]
                                ELSE @]
    /\ UNCHANGED <<clockVars, lastOp, traceVars, dataVars, sg, pe, ex, bm, ld, cf, mt>>

\* return flagged, detail_log
ValidateReturn ==
    /\ vr.pc = "loop"
    /\ vr.columns = <<>>
    /\ vr' = [vr EXCEPT !.pc = "done"]
    /\ UNCHANGED <<clockVars, lastOp, traceVars, dataVars, sg, pe, ex, bm, ld, cf, mt>>

(***************************************************************************)
(* 11. compute_metrics                                                     *)
(***************************************************************************)
MaxReturns == 3
MetricReturnChoices == {NaN, Q(0 - 3, 2), Q(0 - 1, 1), Q(0 - 1, 2), Q(3, 5), Q(1, 8)}

RECURSIVE Pow10(_)
Pow10(k) == IF k = 0 THEN 1 ELSE 10 * Pow10(k - 1)

\* k more decimal digits of rem / q appended to acc: <<digits, remainder>>
RECURSIVE LongDiv(_, _, _, _)
LongDiv(acc, rem, q, k) ==
    IF k = 0 THEN <<acc, rem>>
    ELSE LongDiv(acc * 10 + (rem * 10) \div q, (rem * 10) % q, q, k - 1)

\* round(x, digits): to the nearest, ties to even
Round(x, digits) ==
    LET a == Abs(x[1])
        dr == LongDiv(a \div x[2], a % x[2], x[2], digits)
        up == \/ 2 * dr[2] > x[2]
              \/ 2 * dr[2] = x[2] /\ dr[1] % 2 = 1
        n == IF up THEN dr[1] + 1 ELSE dr[1]
    IN  Q(IF x[1] < 0 THEN 0 - n ELSE n, Pow10(digits))

\* np.cumprod(1.0 + rets)
RECURSIVE CumProd(_)
CumProd(rets) ==
    IF rets = <<>> THEN <<>>
    ELSE LET before == CumProd(SubSeq(rets, 1, Len(rets) - 1))
             last == IF before = <<>> THEN ROne ELSE before[Len(before)]
         IN  Append(before, RMul(last, RAdd(ROne, rets[Len(rets)])))

\* np.nan_to_num(rets, nan = 0.0)
NanToNum(daily_returns) ==
    [k \in 1..Len(daily_returns) |-> NanToZero(daily_returns[k])]

TooShortEmptyOnly(n_days) == n_days < 1
TooShort(n_days) == n_days < 2

\* a figure that takes a root or a power, left out of the model
NotModelled == <<1, 0>>

NeutralResult ==
    [total_return_pct |-> RZero, equity_start |-> ROne, equity_end |-> ROne,
     cagr |-> RZero, vol |-> RZero, sharpe |-> RZero, sortino |-> RZero,
     max_dd |-> RZero, calmar |-> RZero, n_days |-> 0, equity_curve |-> <<>>]

\* the result for an input of at least two returns
Metrics(rets) ==
    LET equity == CumProd(rets)
        equity_end == equity[Len(equity)]
        total_return_pct == RMul(RSub(equity_end, ROne), Q(100, 1))
    IN  [total_return_pct |-> Round(total_return_pct, 4),
         equity_start |-> Round(ROne, 6),
         equity_end |-> Round(equity_end, 6),
         cagr |-> NotModelled, vol |-> NotModelled, sharpe |-> NotModelled,
         sortino |-> NotModelled, max_dd |-> NotModelled, calmar |-> NotModelled,
         n_days |-> Len(rets),
         equity_curve |-> [k \in 1..Len(equity) |-> Round(equity[k], 6)]]

MtIdle == [pc |-> "idle", daily_returns |-> <<>>, optimized |-> FALSE,
           result |-> NeutralResult]

\* compute_metrics(daily_returns); the assert statement is skipped when
\* the interpreter runs with -O
ComputeMetrics ==
    /\ mt.pc = "input"
    /\ LET rets == NanToNum(mt.daily_returns)
           n_days == Len(rets)
           equity == CumProd(rets)
           positive == \A k \in 1..Len(equity) : RLt(RZero, equity[k])
       IN  IF TooShort(n_days)
           THEN mt' = [mt EXCEPT !.pc = "done", !.result = NeutralResult]
           ELSE IF ~mt.optimized /\ ~positive
           THEN mt' = [mt EXCEPT !.pc = "raised"]
           ELSE mt' = [mt EXCEPT !.pc = "done", !.result = Metrics(rets)]
    /\ UNCHANGED <<clockVars, lastOp, traceVars, dataVars, sg, pe, ex, bm, ld, cf, vr>>

(***************************************************************************)
(* Specifications                                                          *)
(***************************************************************************)
\* the components a specification leaves out stay as constructed
IdleData ==
    /\ forward = 1
    /\ feature_df = <<>>
IdleSignals == sg = [SgStart EXCEPT !.pc = "idle"]
IdlePortfolio == pe = PeIdle
IdleExec == ex = ExIdle
IdleBench == bm = BmIdle
IdleLoad == ld = LdIdle
IdleConfig == cf = CfIdle
IdleValidate == vr = VrIdle
IdleMetrics == mt = MtIdle
IdleTrace ==
    /\ guard_calls = {}
    /\ panel_reads = {}

InitClock ==
    /\ IdleMetrics
    /\ IdleValidate
    /\ IdleConfig
    /\ IdleLoad
    /\ ClockInit
    /\ lastOp = NoOp
    /\ IdleData /\ IdleSignals /\ IdleTrace /\ IdlePortfolio /\ IdleExec /\ IdleBench

NextClock ==
    \/ Initialize
    \/ AdvanceTo
    \/ GuardDataAccess
    \/ GuardTrainingData

SpecClock == InitClock /\ [][NextClock]_vars

(***************************************************************************)
(* C1: on one clock, between two initialize calls, 'now' never decreases:  *)
(* an advance_to to a date earlier than 'now' raises LookaheadError and    *)
(* leaves 'now' unchanged; an advance_to to a date equal to or later than  *)
(* 'now' (or on an unset 'now') succeeds and sets 'now' to that date.      *)
(***************************************************************************)
C1_MonotonicClock ==
    /\ lastOp.op = "advance_to" =>
          /\ lastOp.raised <=> (lastOp.before # NoDate /\ lastOp.date < lastOp.before)
          /\ lastOp.raised => as_of_date = lastOp.before
          /\ ~lastOp.raised => as_of_date = lastOp.date
          /\ lastOp.before # NoDate => as_of_date >= lastOp.before

C1_Witness ==
    /\ lastOp.op = "advance_to" /\ lastOp.raised
    /\ lastOp.before # NoDate /\ lastOp.date < lastOp.before
    /\ as_of_date = lastOp.before

(***************************************************************************)
(* C2: guard_data_access(date) raises LookaheadError exactly when 'now' is *)
(* set and date is strictly after 'now'; it returns for date <= now and    *)
(* for every date while 'now' is unset, and it never changes 'now'.        *)
(***************************************************************************)
C2_GuardDataAccess ==
    lastOp.op = "guard_data_access" =>
        /\ lastOp.raised <=> (lastOp.before # NoDate /\ lastOp.date > lastOp.before)
        /\ as_of_date = lastOp.before

C2_Witness ==
    /\ lastOp.op = "guard_data_access" /\ lastOp.raised
    /\ as_of_date # NoDate /\ lastOp.date > as_of_date

\* run_full_backtest: the clock is initialized with the panel's dates
InitSignalRun ==
    /\ IdleMetrics
    /\ IdleValidate
    /\ IdleConfig
    /\ IdleLoad
    /\ as_of_date = NoDate
    /\ all_dates = SortedSeq(PanelDates)
    /\ violation_log = <<>>
    /\ lastOp = NoOp
    /\ IdleTrace
    /\ forward \in 1..MaxForward
    /\ \E firsts \in [TickerSet -> 0..MaxWarmup] : feature_df = Stacked(1, firsts, forward)
    /\ sg = SgStart
    /\ IdlePortfolio /\ IdleExec /\ IdleBench

\* a signal-generation run, or the clock exercised on its own
InitSignals == InitSignalRun \/ InitClock

NextSignals ==
    \/ SignalStep
    \/ SignalFinish
    \/ NextClock

SpecSignals == InitSignals /\ [][NextSignals]_vars

\* the dates of the rows a model was fitted on, and of the closes behind them
TrainDates(model) == RowDates(model.rows)
CloseDatesUsed(model) ==
    {FeatureCloseDate(d) : d \in TrainDates(model)}
        \cup {LabelCloseDate(d, forward) : d \in TrainDates(model)}

(***************************************************************************)
(* C3: for every signal emitted at rebalance date d, every feature row     *)
(* used to fit the model that predicted it (fitted at d or cached from an  *)
(* earlier rebalance) is dated strictly before d; and guard_training_data  *)
(* raises LookaheadError whenever train_end_date >= signal_date.           *)
(***************************************************************************)
C3_NoLookaheadTraining ==
    /\ \A k \in 1..Len(sg.signals) :
          /\ sg.signals[k].model # NoModel
          /\ \A d \in TrainDates(sg.signals[k].model) : d < sg.signals[k].date
    /\ lastOp.op = "guard_training_data" =>
          (lastOp.raised <=> lastOp.date >= lastOp.date2)

\* a signal predicted by a model cached from an earlier rebalance date,
\* after the guard let the pass through
C3_Witness ==
    /\ \E k \in 1..Len(sg.signals) :
          /\ sg.signals[k].model.fit_date < sg.signals[k].date
          /\ TrainDates(sg.signals[k].model) # {}
    /\ lastOp.op = "guard_training_data" /\ ~lastOp.raised
    /\ lastOp.date < lastOp.date2

(***************************************************************************)
(* C4: for every signal at rebalance date d, every close price that enters *)
(* the fit of its model, through a training row's features or through the *)
(* row's forward-return label, is dated strictly before d.                 *)
(***************************************************************************)
C4_WalkForwardCloses ==
    \A k \in 1..Len(sg.signals) :
        \A c \in CloseDatesUsed(sg.signals[k].model) : c < sg.signals[k].date

(***************************************************************************)
(* C9: every read of feature rows (or of return-matrix values) for a date  *)
(* is preceded by a guard_data_access call covering that date on the clock *)
(* of the current phase.                                                   *)
(***************************************************************************)
C9_ReadsGuarded ==
    \A d \in panel_reads : \E g \in guard_calls : d <= g

InitPortfolio ==
    /\ IdleMetrics
    /\ IdleValidate
    /\ IdleConfig
    /\ IdleLoad
    /\ ClockInit
    /\ lastOp = NoOp
    /\ IdleData /\ IdleSignals /\ IdleTrace /\ IdleExec /\ IdleBench
    /\ \E ranked \in RankedLists(WideTickers), cfg \in PortfolioConfigs :
          pe = [PeIdle EXCEPT !.pc = "input", !.ranked = ranked] @@ [cfg |-> cfg]

NextPortfolio == Construct

SpecPortfolio == InitPortfolio /\ [][NextPortfolio]_vars

(***************************************************************************)
(* C8: for every signal set and weighting mode, the weight map returned by *)
(* PortfolioEngine.construct has |weight[i]| <= max_weight for every       *)
(* instrument i and sum of |weight[i]| <= max_leverage.                    *)
(***************************************************************************)
C8_WeightCaps ==
    pe.pc = "done" =>
        /\ \A t \in DOMAIN pe.weights : RLe(RAbs(pe.weights[t]), pe.cfg.max_weight)
        /\ RLe(GrossExposure(pe.weights), pe.cfg.max_leverage)

\* the leverage rescale applied to clamped weights that exceed the cap
C8_Witness ==
    /\ pe.pc = "done"
    /\ Cardinality(DOMAIN pe.weights) >= 2
    /\ pe.cfg.weighting = "vol_target"
    /\ GrossExposure(pe.weights) = pe.cfg.max_leverage
    /\ \E t \in DOMAIN pe.weights : RLt(pe.weights[t], RZero)
    /\ \E t \in DOMAIN pe.weights : RLt(RAbs(pe.weights[t]), pe.cfg.max_weight)

\* run_full_backtest: a fresh clock initialized with the out-of-sample
\* dates; the DataProvider keeps the clock of the signal phase, which
\* stands at the last rebalance date
InitExec ==
    /\ IdleMetrics
    /\ IdleValidate
    /\ IdleConfig
    /\ IdleLoad
    /\ as_of_date = NoDate
    /\ all_dates = SortedSeq(OosDates)
    /\ violation_log = <<>>
    /\ lastOp = NoOp
    /\ IdleData /\ IdleSignals /\ IdleTrace /\ IdlePortfolio /\ IdleBench
    /\ \E cfg \in ExecConfigs :
          ex = [ExIdle EXCEPT !.pc = "loop", !.data_now = LastOos - 1] @@ [cfg |-> cfg]

NextExec ==
    \/ ExecStep
    \/ ExecFinish

SpecExec == InitExec /\ [][NextExec]_vars

\* the weights built from the latest signal dated strictly before d
SignalDatesBefore(d) == {x \in DOMAIN ex.built : x < d}
WeightsDueAt(d) ==
    IF SignalDatesBefore(d) = {} THEN EmptyWeights
    ELSE ex.built[SetMax(SignalDatesBefore(d))]

(***************************************************************************)
(* C5: the weights built from the signal at date d are not used for the    *)
(* return recorded at d; the return at d is computed with the weights in   *)
(* force before d's signal, and the new weights first count in the return  *)
(* recorded for the next out-of-sample date.                               *)
(***************************************************************************)
C5_TradeDelay ==
    ex.day.date # NoDate =>
        /\ ex.day.weights = WeightsDueAt(ex.day.date)
        /\ ex.day.gross = IF ex.day.date = 0 THEN RZero
                          ELSE DayReturn(WeightsDueAt(ex.day.date), ex.day.rets)
        /\ ex.day.date \in DOMAIN ex.built =>
              /\ ex.pending_rebalance
              /\ ex.pending_new_weights = <<ex.built[ex.day.date]>>

\* the day after a signal whose weights differ from those held before it
C5_Witness ==
    /\ ex.day.date >= 2
    /\ (ex.day.date - 1) \in DOMAIN ex.built
    /\ ex.day.weights = ex.built[ex.day.date - 1]
    /\ SignalDatesBefore(ex.day.date - 1) # {}
    /\ WeightsDueAt(ex.day.date - 1) # ex.day.weights
    /\ ex.day.gross # RZero
    /\ ex.day.gross # DayReturn(WeightsDueAt(ex.day.date - 1), ex.day.rets)

(***************************************************************************)
(* C6: on every date that is not a rebalance-trade day the recorded        *)
(* turnover is zero and no cost is deducted: gross and net return agree.   *)
(***************************************************************************)
C6_TurnoverOnTradeDays ==
    /\ \A d \in DOMAIN ex.turnover_by_date :
          d \notin ex.rebalance_trade_dates => ex.turnover_by_date[d] = RZero
    /\ (ex.day.date # NoDate /\ ex.day.date \notin ex.rebalance_trade_dates) =>
          ex.day.net = ex.day.gross

\* a day with holdings and a return, after a trade that cost something
C6_Witness ==
    /\ ex.day.date # NoDate
    /\ ex.day.date \notin ex.rebalance_trade_dates
    /\ ex.day.gross # RZero
    /\ ex.cfg.cost_bps > 0
    /\ \E d \in ex.rebalance_trade_dates : RLt(RZero, ex.turnover_by_date[d])

(***************************************************************************)
(* C7: on every rebalance-trade day the recorded net return equals the     *)
(* gross return minus turnover x (cost_bps + slippage_bps) / 10000, for    *)
(* every weight map the engine returns, an empty one included.             *)
(***************************************************************************)
C7_NetReturnOnTradeDays ==
    (ex.day.date # NoDate /\ ex.day.date \in ex.rebalance_trade_dates) =>
        ex.day.net = RSub(ex.day.gross,
                          RMul(ex.turnover_by_date[ex.day.date], CostRate(ex.cfg)))

\* compute_benchmarks called with a return matrix over the common dates, a
\* rebalance schedule on those dates and the strategy's cost settings
InitBench ==
    /\ IdleMetrics
    /\ IdleValidate
    /\ IdleConfig
    /\ IdleLoad
    /\ ClockInit
    /\ lastOp = NoOp
    /\ IdleData /\ IdleSignals /\ IdleTrace /\ IdlePortfolio /\ IdleExec
    /\ \E return_matrix \in [BenchDates -> [BenchTickers -> ReturnChoices]],
          reb_schedule \in SUBSET (BenchDates \ {0}) :
          bm = [BmIdle EXCEPT !.pc = "equal_weight_bh",
                              !.return_matrix = return_matrix,
                              !.reb_schedule = reb_schedule,
                              !.weights = EqualBenchWeights(BenchTickers)]

NextBench ==
    \/ EqualWeightStep
    \/ SpyStep
    \/ RandomStep

SpecBench == InitBench /\ [][NextBench]_vars

(***************************************************************************)
(* C10: for each benchmark of compute_benchmarks, on every day on which    *)
(* the benchmark's holdings are reset or changed, its daily return is the  *)
(* gross return reduced by turnover x (cost_bps + slippage_bps) / 10000.   *)
(***************************************************************************)
C10_BenchmarkCosts ==
    bm.day.changed =>
        bm.day.ret = RSub(bm.day.gross, RMul(bm.day.turnover, CostRate(bm)))

\* run_full_backtest: the requested tickers and what the data source holds
InitLoad ==
    /\ IdleMetrics
    /\ IdleValidate
    /\ IdleConfig
    /\ ClockInit
    /\ lastOp = NoOp
    /\ IdleData /\ IdleSignals /\ IdleTrace /\ IdlePortfolio /\ IdleExec /\ IdleBench
    /\ \E raw \in [Range(LoadTickers) -> RawFrames] :
          ld = [LdIdle EXCEPT !.pc = "input", !.ticker_list = LoadTickers, !.raw = raw]

NextLoad ==
    \/ Load
    \/ AbsurdCleanup

SpecLoad == InitLoad /\ [][NextLoad]_vars

(***************************************************************************)
(* C11: after DataProvider.load every date in common_dates is a date on    *)
(* which at least half of the surviving instruments have a non-missing     *)
(* close: count >= n/2 for n survivors, odd n included.                    *)
(***************************************************************************)
C11_MajorityDates ==
    ld.pc = "loaded" =>
        \A d \in ld.common_dates :
            2 * CountOn(ld.price_dict, d) >= Cardinality(DOMAIN ld.price_dict)

(***************************************************************************)
(* C12: after a successful load, and after the absurd-return cleanup,      *)
(* every requested instrument is in the panel or in the missing report     *)
(* with a reason, never both and never neither; the load aborts only when  *)
(* no instrument survives or too few common dates remain.                  *)
(***************************************************************************)
C12_EveryTickerAccounted ==
    /\ ld.pc \in {"loaded", "cleaned"} =>
          /\ DOMAIN ld.price_dict \cup DOMAIN ld.missing_report = Range(ld.ticker_list)
          /\ DOMAIN ld.price_dict \cap DOMAIN ld.missing_report = {}
          /\ \A t \in DOMAIN ld.missing_report : ld.missing_report[t] # ""
          /\ DOMAIN ld.price_dict # {}
    /\ ld.pc = "raised" =>
          ld.error \in {"No ticker data loaded", "No tickers have enough days",
                        "All tickers dropped", "Too few dates",
                        "Too few dates in range"}

\* one instrument failed to load, one was flagged for absurd returns, and
\* the run goes on with the rest
C12_Witness ==
    /\ ld.pc = "cleaned"
    /\ \E t \in DOMAIN ld.missing_report : ld.missing_report[t] = "absurd_returns"
    /\ \E t \in DOMAIN ld.missing_report : ld.missing_report[t] = "exception"
    /\ DOMAIN ld.price_dict # {}

\* run_full_backtest(**kwargs), and a second set of keyword arguments
InitConfig ==
    /\ IdleMetrics
    /\ IdleValidate
    /\ ClockInit
    /\ lastOp = NoOp
    /\ IdleData /\ IdleSignals /\ IdleTrace /\ IdlePortfolio /\ IdleExec /\ IdleBench
    /\ IdleLoad
    /\ \E kw \in KwArgs(ConfigSlots), other_kw \in KwArgs(ConfigSlots) :
          cf = [CfIdle EXCEPT !.pc = "input", !.kw = kw, !.other_kw = other_kw]

NextConfig ==
    \/ ConfigHash
    \/ ValidateTopK
    \/ AssembleOutput

SpecConfig == InitConfig /\ [][NextConfig]_vars

\* the two configs agree on every slot other than data_dir and debug
AgreeOnResults(cfg, other) ==
    \A slot \in ConfigSlots \ {"data_dir", "debug"} : cfg[slot] = other[slot]

(***************************************************************************)
(* C13: config_hash depends on exactly the fields other than data_dir and  *)
(* debug: two configs that agree on every other field get the same hash,   *)
(* in whatever order the fields were supplied and whatever their data_dir  *)
(* and debug; two that differ in another field get different hashes.       *)
(***************************************************************************)
C13_ConfigHashFields ==
    cf.pc # "input" /\ cf.pc # "idle" =>
        (AgreeOnResults(cf.cfg_start, cf.other) <=> cf.hash_start = cf.hash_other)

\* the same top_k, once spelled out and once by default, with the other
\* arguments in another order and with other data_dir and debug values
C13_Witness ==
    /\ cf.pc = "hashed"
    /\ Len(cf.kw) = 3 /\ Len(cf.other_kw) = 2
    /\ cf.kw[1][1] = "top_k" /\ cf.other_kw[1][1] = "debug"
    /\ cf.cfg_start["data_dir"] # cf.other["data_dir"]
    /\ cf.cfg_start["debug"] # cf.other["debug"]
    /\ cf.hash_start = cf.hash_other

(***************************************************************************)
(* C14: during run_full_backtest no field of the BacktestConfig changes    *)
(* value: the config and its hash at the end of a run equal those the run  *)
(* was started with.                                                       *)
(***************************************************************************)
C14_ConfigReadOnly ==
    /\ cf.pc \in {"validated", "done"} => cf.cfg = cf.cfg_start
    /\ cf.pc = "done" => cf.hash_end = cf.hash_start

\* validate_returns(return_matrix): one column drawn freely, the other a
\* constant column
InitValidate ==
    /\ IdleMetrics
    /\ ClockInit
    /\ lastOp = NoOp
    /\ IdleData /\ IdleSignals /\ IdleTrace /\ IdlePortfolio /\ IdleExec /\ IdleBench
    /\ IdleLoad /\ IdleConfig
    /\ \E col \in [ValDates -> ValReturnChoices], r \in ValReturnChoices :
          vr = [VrIdle EXCEPT
                   !.pc = "loop",
                   !.columns = ValTickers,
                   !.return_matrix = [t \in Range(ValTickers) |->
                                         IF t = ValTickers[1] THEN col
                                         ELSE [d \in ValDates |-> r]]]

NextValidate ==
    \/ ValidateTicker
    \/ ValidateReturn

SpecValidate == InitValidate /\ [][NextValidate]_vars

\* the days of a ticker whose non-missing return exceeds 50% in magnitude
AbsurdDays(t) ==
    {d \in ValDates : /\ vr.return_matrix[t][d] # NaN
                      /\ \/ RLt(Q(1, 2), vr.return_matrix[t][d])
                         \/ RLt(vr.return_matrix[t][d], Q(0 - 1, 2))}

(***************************************************************************)
(* C15: validate_returns flags an instrument if and only if it has more    *)
(* than 3 days whose non-missing return exceeds 0.50 in absolute value; an *)
(* instrument with 1 to 3 such days is retained, and a flagged entry lists *)
(* exactly those days.                                                     *)
(***************************************************************************)
C15_AbsurdFlagging ==
    vr.pc = "done" =>
        \A t \in Range(ValTickers) :
            /\ t \in DOMAIN vr.flagged <=> Cardinality(AbsurdDays(t)) > 3
            /\ t \in DOMAIN vr.flagged => Range(vr.flagged[t]) = AbsurdDays(t)
            /\ Cardinality(AbsurdDays(t)) \in 1..3 =>
                  /\ t \notin DOMAIN vr.flagged
                  /\ t \in DOMAIN vr.warned

\* one instrument flagged with four absurd days, one kept with three, a
\* return of exactly 50% among those that do not count
C15_Witness ==
    /\ vr.pc = "done"
    /\ \E t \in DOMAIN vr.flagged : Len(vr.flagged[t]) = 4
    /\ \E t \in DOMAIN vr.warned :
          /\ Len(vr.warned[t]) = 3
          /\ \E d \in ValDates : vr.return_matrix[t][d] = Q(1, 2)

\* every series of up to MaxReturns returns
ReturnSeries == UNION {[1..n -> MetricReturnChoices] : n \in 0..MaxReturns}

InitMetrics ==
    /\ ClockInit
    /\ lastOp = NoOp
    /\ IdleData /\ IdleSignals /\ IdleTrace /\ IdlePortfolio /\ IdleExec /\ IdleBench
    /\ IdleLoad /\ IdleConfig /\ IdleValidate
    /\ \E daily_returns \in ReturnSeries, optimized \in BOOLEAN :
          mt = [MtIdle EXCEPT !.pc = "input", !.daily_returns = daily_returns,
                              !.optimized = optimized]

NextMetrics == ComputeMetrics

SpecMetrics == InitMetrics /\ [][NextMetrics]_vars

\* the product of (1 + r) over the series, NaN counted as 0
RECURSIVE ProductOfGrowth(_)
ProductOfGrowth(series) ==
    IF series = <<>> THEN ROne
    ELSE RMul(RAdd(ROne, IF Head(series) = NaN THEN RZero ELSE Head(series)),
              ProductOfGrowth(Tail(series)))

MetricsCalled == mt.pc \in {"done", "raised"}

(***************************************************************************)
(* C16: compute_metrics never clips: for every input series of at least 2  *)
(* returns, equity_end is the product of (1 + r) over all returns (NaN as  *)
(* 0, to the 6 decimals it is reported with) and total_return_pct equals   *)
(* (equity_end - 1) x 100.                                                 *)
(***************************************************************************)
C16_NoClipping ==
    (MetricsCalled /\ Len(mt.daily_returns) >= 2) =>
        /\ mt.pc = "done"
        /\ mt.result.equity_end = Round(ProductOfGrowth(mt.daily_returns), 6)
        /\ mt.result.total_return_pct
              = RMul(RSub(mt.result.equity_end, ROne), Q(100, 1))

(***************************************************************************)
(* C17: for every series of finite input returns compute_metrics returns   *)
(* metrics, and the equity curve is strictly positive at every point.      *)
(***************************************************************************)
C17_PositiveEquity ==
    (MetricsCalled /\ Len(mt.daily_returns) >= 2
        /\ \A k \in 1..Len(mt.daily_returns) : mt.daily_returns[k] # NaN) =>
        /\ mt.pc = "done"
        /\ \A k \in 1..Len(mt.result.equity_curve) :
              RLt(RZero, mt.result.equity_curve[k])

(***************************************************************************)
(* C18: on an input of fewer than 2 returns compute_metrics does not fail  *)
(* and returns the neutral result: n_days = 0, equity_start = equity_end = *)
(* 1.0, every performance figure 0 and an empty equity curve.              *)
(***************************************************************************)
C18_ShortInput ==
    (MetricsCalled /\ Len(mt.daily_returns) < 2) =>
        /\ mt.pc = "done"
        /\ mt.result.n_days = 0
        /\ mt.result.equity_start = ROne /\ mt.result.equity_end = ROne
        /\ \A f \in {"total_return_pct", "cagr", "vol", "sharpe", "sortino",
                     "max_dd", "calmar"} : mt.result[f] = RZero
        /\ mt.result.equity_curve = <<>>

\* a single return that would wipe the equity out had it been compounded
C18_Witness ==
    /\ mt.pc = "done"
    /\ Len(mt.daily_returns) = 1
    /\ mt.daily_returns[1] = Q(0 - 3, 2)
    /\ ~mt.optimized
    /\ mt.result = NeutralResult

\* the instruments at positions a..b of the ranking
Ranks(ranked, a, b) == {ranked[k] : k \in a..b}

(***************************************************************************)
(* C19: with n instruments in the signal set, construct takes as longs the *)
(* min(top_k, n) instruments of highest predicted return and as shorts the *)
(* min(bottom_k, n - |longs|) instruments of lowest predicted return; the  *)
(* two sets are disjoint, and an empty signal set or an empty selection    *)
(* yields an empty weight map.                                             *)
(***************************************************************************)
C19_Selection ==
    pe.pc = "done" =>
        LET n == Len(pe.ranked)
            longs == Range(pe.long_tickers)
            shorts == Range(pe.short_tickers)
            n_short == Min(pe.cfg.bottom_k, n - Cardinality(longs))
        IN  /\ longs = Ranks(pe.ranked, 1, Min(pe.cfg.top_k, n))
            /\ shorts = Ranks(pe.ranked, n - n_short + 1, n)
            /\ longs \cap shorts = {}
            /\ (n = 0 \/ longs \cup shorts = {}) => pe.weights = EmptyWeights

(***************************************************************************)
(* C20: under equal weighting with N = longs + shorts selected, the        *)
(* weighting step gives every long +1/N and every short -1/N, and after    *)
(* the caps every selected instrument carries the magnitude                *)
(* min(1/N, max_weight, max_leverage/N), longs positive, shorts negative.  *)
(***************************************************************************)
C20_EqualWeighting ==
    (pe.pc = "done" /\ pe.cfg.weighting = "equal"
        /\ Len(pe.long_tickers) + Len(pe.short_tickers) > 0) =>
        LET N == Len(pe.long_tickers) + Len(pe.short_tickers)
            longs == Range(pe.long_tickers)
            shorts == Range(pe.short_tickers)
            magnitude == RMin(Q(1, N), RMin(pe.cfg.max_weight,
                                            RDiv(pe.cfg.max_leverage, Q(N, 1))))
        IN  /\ DOMAIN pe.weighted = longs \cup shorts
            /\ DOMAIN pe.weights = longs \cup shorts
            /\ \A t \in longs : /\ pe.weighted[t] = Q(1, N)
                                /\ pe.weights[t] = magnitude
            /\ \A t \in shorts : /\ pe.weighted[t] = Q(0 - 1, N)
                                 /\ pe.weights[t] = RNeg(magnitude)
            /\ RLt(RZero, magnitude)

\* longs and shorts together, scaled down to the leverage cap
C20_Witness ==
    /\ pe.pc = "done" /\ pe.cfg.weighting = "equal"
    /\ Len(pe.long_tickers) = 2 /\ Len(pe.short_tickers) = 1
    /\ pe.cfg.max_weight = Q(1, 4) /\ pe.cfg.max_leverage = Q(1, 2)
    /\ \A t \in Range(pe.long_tickers) : pe.weights[t] = Q(1, 6)
    /\ \A t \in Range(pe.short_tickers) : pe.weights[t] = Q(0 - 1, 6)

\* a pass of the loop that was not skipped and did not raise
PassCompleted == sg'.rebalance_count = sg.rebalance_count + 1
PassRefit == sg'.retrain_count = sg.retrain_count + 1

(***************************************************************************)
(* C21: at a rebalance date that is not skipped the model is refit if and  *)
(* only if no model has been fit yet or the date's month differs from the  *)
(* month of the last refit; otherwise the cached model is reused as it is. *)
(* Every signal at date d is predicted by a model fit at a rebalance date  *)
(* <= d of the same calendar month, and retrain_count <= rebalance_count.  *)
(***************************************************************************)
C21_RefitCadence ==
    /\ [](/\ \A k \in 1..Len(sg.signals) :
                /\ sg.signals[k].model.fit_date <= sg.signals[k].date
                /\ MonthOf(sg.signals[k].model.fit_date) = MonthOf(sg.signals[k].date)
          /\ sg.retrain_count <= sg.rebalance_count)
    /\ [][PassCompleted =>
            /\ PassRefit <=> \/ sg.cached_model = NoModel
                             \/ MonthOf(as_of_date') # MonthOf(sg.cached_model.fit_date)
            /\ PassRefit => sg'.cached_model.fit_date = as_of_date'
            /\ ~PassRefit => /\ sg'.cached_model = sg.cached_model
                             /\ sg'.retrain_count = sg.retrain_count]_vars

\* a second refit at a month boundary, and a date served by the cached model
C21_Witness ==
    /\ sg.retrain_count >= 2
    /\ sg.retrain_count < sg.rebalance_count
    /\ \E k \in 1..Len(sg.signals) :
          sg.signals[k].model.fit_date < sg.signals[k].date

\* the rows dated before the date the model was fit at, and those of them
\* that the fit left out
TrainRowsBefore(model) == Masked(feature_df, model.fit_date, TRUE)
Discarded(model) == Range(TrainRowsBefore(model)) \ Range(model.rows)

(***************************************************************************)
(* C22: when the rows dated before the rebalance date exceed the cap N,    *)
(* the N rows kept for the fit are the N most recent by date: no discarded *)
(* row has a later date than a kept row.                                   *)
(***************************************************************************)
C22_CapKeepsMostRecent ==
    (sg.cached_model # NoModel
        /\ Len(TrainRowsBefore(sg.cached_model)) > MaxTrainRowsCap) =>
        /\ Len(sg.cached_model.rows) = MaxTrainRowsCap
        /\ \A r \in Discarded(sg.cached_model) :
              \A q \in Range(sg.cached_model.rows) : r.date <= q.date

\* the calendar declared by the most recent initialize, empty before any
DeclaredCalendar == IF all_dates = NoCalendar THEN {} ELSE Range(all_dates)

(***************************************************************************)
(* C23: after any sequence of initialize and advance_to calls 'now' is     *)
(* either unset or a date of the calendar passed to the most recent        *)
(* initialize; an advance_to on a never-initialized clock, or to a date    *)
(* outside the declared calendar, does not set 'now'; only initialize      *)
(* unsets 'now'.                                                           *)
(***************************************************************************)
C23_ClockStateMachine ==
    /\ as_of_date = NoDate \/ as_of_date \in DeclaredCalendar
    /\ (lastOp.op = "advance_to" /\ lastOp.date \notin DeclaredCalendar) =>
          as_of_date = lastOp.before
    /\ (lastOp.op # "initialize" /\ lastOp.before # NoDate) => as_of_date # NoDate

(***************************************************************************)
(* C24: during the execution phase every guard_data_access check that the  *)
(* portfolio construction triggers (the vol-target trailing-return lookup) *)
(* is evaluated against the execution-phase clock, whose 'now' is the day  *)
(* being simulated, and no return dated after that day is read.            *)
(***************************************************************************)
C24_ExecPhaseGuard ==
    /\ ex.guard # NoGuard => ex.guard.now = ex.guard.date
    /\ ex.pc # "idle" => \A d \in panel_reads : d <= as_of_date

\* a pass of the loop that skipped its date
PassSkipped == sg'.i_reb = sg.i_reb + 1 /\ sg'.rebalance_count = sg.rebalance_count

(***************************************************************************)
(* C25: too few usable signals is fatal: when, after the dates skipped in  *)
(* generate_signals, fewer than the minimum number of rebalance dates have *)
(* produced signals, the run aborts instead of returning results; a        *)
(* skipped date emits no signal and leaves the cached model unchanged.     *)
(***************************************************************************)
C25_TooFewSignalsFatal ==
    /\ []((sg.pc = "done" /\ ScheduleAccepted(sg.i_reb, sg.on_feature_dates))
             => sg.rebalance_count >= MinRebalanceDates)
    /\ [][PassSkipped => /\ sg'.signals = sg.signals
                         /\ sg'.cached_model = sg.cached_model]_vars

\* the instruments that pass the row-count check of step 1
PassRowCount ==
    {t \in Range(ld.ticker_list) :
        ld.raw[t].kind = "data" /\ ld.raw[t].last - ld.raw[t].first + 1 >= MinRows}

(***************************************************************************)
(* C26: for any two or more instruments passing the row-count check, all   *)
(* but one of which have the same valid range [S, E], the canonical        *)
(* calendar built by DataProvider.load contains every business day of      *)
(* [S, E], whatever the valid range of the remaining instrument.           *)
(***************************************************************************)
C26_OutlierResistantCalendar ==
    (ld.pc = "loaded" /\ ~ld.date_filter /\ Cardinality(PassRowCount) >= 2) =>
        \A outlier \in PassRowCount : \A S \in LoadDates, E \in LoadDates :
            (\A t \in PassRowCount \ {outlier} :
                 ld.raw[t].first = S /\ ld.raw[t].last = E)
                => \A d \in S..E : d \in ld.common_dates

\* ExecutionSimulator.run called on the clock the signal phase left at the
\* last rebalance date, the clock the DataProvider holds as well
InitExecLeftover ==
    /\ IdleMetrics /\ IdleValidate /\ IdleConfig /\ IdleLoad
    /\ \E last_rebalance \in {0, LastOos - 1} :
          /\ as_of_date = last_rebalance
          /\ \E cfg \in ExecConfigs :
                ex = [ExIdle EXCEPT !.pc = "loop", !.data_now = last_rebalance,
                                    !.own_clock = FALSE] @@ [cfg |-> cfg]
    /\ all_dates = SortedSeq(PanelDates)
    /\ violation_log = <<>>
    /\ lastOp = NoOp
    /\ IdleData /\ IdleSignals /\ IdleTrace /\ IdlePortfolio /\ IdleBench

InitExecAnyClock == InitExec \/ InitExecLeftover

SpecExecClock == InitExecAnyClock /\ [][NextExec]_vars

(***************************************************************************)
(* C28: ExecutionSimulator.run on the clock left over from signal          *)
(* generation fails with LookaheadError at the first out-of-sample date    *)
(* whenever that date precedes the last rebalance date the signal phase    *)
(* advanced to; on a fresh clock the run over the dates in ascending order *)
(* never raises a rewind error.                                            *)
(***************************************************************************)
C28_LeftoverClockRewinds ==
    /\ (~ex.own_clock /\ lastOp.op = "advance_to" /\ lastOp.date = 0
           /\ lastOp.date < ex.data_now) =>
          /\ lastOp.raised
          /\ ex.pc = "raised" /\ ex.i = 0 /\ ex.day = NoDay
    /\ ex.own_clock => ~(lastOp.op = "advance_to" /\ lastOp.raised)

\* the leftover clock refused the first date and stayed where it was
C28_Witness ==
    /\ ~ex.own_clock
    /\ ex.pc = "raised"
    /\ lastOp.op = "advance_to" /\ lastOp.raised /\ lastOp.date = 0
    /\ as_of_date = ex.data_now /\ as_of_date > 0

\* run_full_backtest from the start of signal generation to the result
InitRun == InitSignalRun /\ forward = 1

NextRun ==
    \/ SignalStep
    \/ SignalFinish
    \/ StartExecution
    \/ ExecStep
    \/ ExecFinish
    \/ ReturnResult

SpecRun == InitRun /\ [][NextRun]_vars

(***************************************************************************)
(* C27: in any run of run_full_backtest that returns a result the          *)
(* violation logs of both clocks are empty: whenever a violation is        *)
(* recorded a LookaheadError ends the run, so a result never carries the   *)
(* lookahead-violations warning.                                           *)
(***************************************************************************)
C27_NoViolationInResult ==
    /\ ex.pc = "returned" =>
          /\ violation_log = <<>>
          /\ ex.data_log = <<>>
          /\ ~ex.lookahead_warning
    /\ (violation_log # <<>> \/ ex.data_log # <<>>) =>
          (sg.pc = "raised" \/ ex.pc = "raised")

\* a returned run whose vol-target lookups went through the guard
C27_Witness ==
    /\ ex.pc = "returned"
    /\ sg.pc = "returned"
    /\ ex.guard # NoGuard
    /\ ex.rebalance_trade_dates # {}

(***************************************************************************)
(* C29: in the result of ExecutionSimulator.run, total_cost, the sum of    *)
(* turnover x cost rate over all recorded turnovers, equals the sum over   *)
(* all days of gross return minus net return.                              *)
(***************************************************************************)
C29_CostAccounting ==
    ex.pc = "done" => ex.total_cost = ex.cost_deducted

\* the days of the sequence gone through so far that follow a signal date
DaysAfterSignal == {d \in 1..(ex.i - 1) : (d - 1) \in DOMAIN ex.built}

====
